---- MODULE Spec2Model ----
(***************************************************************************)
(* Model of src/main.py: the /api/top-gainers handler                      *)
(* (get_top_gainers_data), its module-level cache api_cache, symbol         *)
(* discovery (get_dynamic_tickers) and the classifier get_rank.             *)
(*                                                                          *)
(* Units: the clock is in minutes; prices are integers in mills            *)
(* (thousandths of a dollar); the "change" field of a snapshot, which the   *)
(* code formats with two decimals, is an integer number of cents.           *)
(* A Python value that may be None is a sequence of length at most one:     *)
(* None is <<>> and a value v is <<v>>.                                     *)
(* The price levels atrStop and profitTarget are in cents, changePercent is  *)
(* in hundredths of a percent; a formatted number is <<v>> and the text     *)
(* "nan" that the format gives for a NaN is <<>>.                           *)
(***************************************************************************)
EXTENDS Integers, Sequences, FiniteSets, TLC

VARIABLES
    api_cache,       \* the module-level dict: [data, last_updated]
    dataBy,          \* history: call that wrote api_cache["data"] (0: nobody)
    stampBy,         \* history: call that wrote api_cache["last_updated"]
    clock,           \* datetime.utcnow(), in minutes
    calls,           \* number of requests received so far
    workers,         \* number of requests the server handles at once
    page,            \* what the most-active page serves during the run
    market,          \* what the market-data provider serves, per ticker
    pc,              \* per request thread: position in the handler
    callId,          \* per request thread: number of the request it serves
    obs,             \* per request thread: history, writer of the data read at line 86
    active_tickers,  \* local of get_top_gainers_data
    idx,             \* position of the for loop in active_tickers
    all_data,        \* local of get_top_gainers_data
    top_10_stocks,   \* local of get_top_gainers_data
    resp,            \* per request thread: the response of its last request
    rng,             \* the seed of the generator of module random
    staleServed      \* history: a call answered with the stale entry (line 186)
                     \* since api_cache["last_updated"] was last written

vars == <<api_cache, dataBy, stampBy, clock, calls, workers, page, market,
          pc, callId, obs, active_tickers, idx, all_data, top_10_stocks, resp,
          rng, staleServed>>

------------------------------------------------------------------------------
(* Bounds of the model *)

MaxProcs == 2
MaxCalls == 3
MaxTicks == 1

Procs == 1..MaxProcs

------------------------------------------------------------------------------
(* Program constants *)

CACHE_DURATION == 5

TopN == 10

ScrapeLimit == 25

FallbackTickers ==
    <<"NVDA", "TSLA", "AAPL", "SMCI", "AVGO", "GME", "PLTR", "AMD", "LLY", "DELL">>

RsiDefault == 0

None == <<>>

Some(v) == <<v>>

------------------------------------------------------------------------------
(* The upstream world: pages and quotes *)

LongPage ==
    <<"T01", "T02", "T03", "T04", "T05", "T06", "T07", "T08", "T09", "T10",
      "T11", "T12", "T13", "T14", "T15", "T16", "T17", "T18", "T19", "T20",
      "T21", "T22", "T23", "T24", "T25", "T26">>

AllTickers == <<"AAA", "BBB">> \o LongPage \o FallbackTickers

Tickers == {AllTickers[i] : i \in 1..Len(AllTickers)}

TickerNo(t) == CHOOSE i \in 1..Len(AllTickers) : AllTickers[i] = t

\* RSI_14 of the last history row: a number, NaN, or no such column
RsiNaN == -1

RsiNoColumn == -2

\* ATRr_14 of the last history row, in mills: a number, NaN, or no such column
\* (pandas_ta appends no column to a history shorter than the length)
AtrNaN == -1

AtrNoColumn == -2

\* info without the key 'previousClose'
PrevMissing == -1

\* kind: "error" (the fetch raises), "noprice" (info lacks regularMarketPrice),
\* "emptyhist" (history is empty) or "ok"
Quote(kind, price, prev, rsi, atr) ==
    [kind |-> kind, regularMarketPrice |-> price, previousClose |-> prev,
     rsi |-> rsi, atr |-> atr]

QError == Quote("error", 0, 0, RsiNoColumn, AtrNoColumn)

QNoPrice == Quote("noprice", 0, 0, RsiNoColumn, AtrNoColumn)

QEmptyHist == Quote("emptyhist", 10000, 10000, RsiNoColumn, AtrNoColumn)

ShortQuotes ==
    { QError, QEmptyHist,
      Quote("ok", 10001, 10000, 50, 200),
      Quote("ok", 10004, 10000, 80, 200),
      Quote("ok", 10020, 10000, 70, 300),
      Quote("ok", 9990, 10000, 60, 200),
      Quote("ok", 10020, 10000, RsiNoColumn, AtrNoColumn),
      Quote("ok", 10000, 10000, RsiNaN, AtrNaN) }

\* quotes whose previousClose is zero, missing or negative
OddQuotes ==
    { Quote("ok", 10020, 0, 50, 200),
      Quote("ok", 10020, PrevMissing, 50, 200),
      Quote("ok", 10020, -10000, 50, 200) }

\* the quote of the n-th ticker in three market situations: a rally, an outage
\* of the provider, a mixed day.  Every change is an even number of mills, so
\* that no change lies halfway between two cents
PatternQuote(k, n) ==
    CASE k = 1 -> Quote("ok", 10000 + 6 * n, 10000, 30 + ((7 * n) % 60), 100 + 10 * n)
      [] k = 2 -> QError
      [] OTHER -> IF n % 3 = 0
                  THEN (IF n % 9 = 0 THEN QError ELSE IF n % 2 = 0 THEN QEmptyHist ELSE QNoPrice)
                  ELSE IF n % 3 = 1 THEN Quote("ok", 10050 - 4 * n, 10000, 50 + n, 100 + 10 * n)
                  ELSE IF n % 4 = 0 THEN Quote("ok", 10000 - 2 * n, 10000, RsiNoColumn, AtrNoColumn)
                  ELSE Quote("ok", 10000 - 2 * n, 10000, RsiNaN, AtrNaN)

Patterns == 1..3

MkMarket(qa, qb, k) ==
    [t \in Tickers |-> IF t = "AAA" THEN qa
                       ELSE IF t = "BBB" THEN qb
                       ELSE PatternQuote(k, TickerNo(t))]

\* kind: "neterr" (requests raises), "parseerr" (no table in the page), "ok"
Page(kind, links) == [kind |-> kind, links |-> links]

ShortPages ==
    { Page("ok", <<"AAA", "BBB">>), Page("ok", <<"BBB", "AAA">>) }

OtherPages ==
    { Page("neterr", <<>>), Page("parseerr", <<>>), Page("ok", <<>>),
      Page("ok", LongPage), Page("ok", SubSeq(LongPage, 1, 12)) }

RepeatPages ==
    { Page("ok", <<"AAA", "AAA">>), Page("ok", <<"AAA", "BBB", "AAA">>) }

\* the seeds of the generator of module random (seeded by the system at import)
Seeds == 0..2

\* what the upstream, and the seed, are for a server that handles one request
\* at a time
SeqWorlds ==
    { <<pg, MkMarket(qa, qb, 1), 0>> : pg \in ShortPages, qa \in ShortQuotes, qb \in ShortQuotes }
    \cup { <<pg, MkMarket(qa, QEmptyHist, 1), s>> :
               pg \in RepeatPages, qa \in ShortQuotes \cup OddQuotes, s \in Seeds }
    \cup { <<pg, MkMarket(QError, QError, k), 0>> : pg \in OtherPages, k \in Patterns }

\* what they are for a threaded server
ThreadedQuotes == { QEmptyHist, Quote("ok", 10020, 10000, 70, 300) }

ThreadedWorlds ==
    { <<Page("ok", <<"AAA">>), MkMarket(qa, QEmptyHist, 1), 0>> : qa \in ThreadedQuotes }

------------------------------------------------------------------------------
(* Pure functions of the program *)

\* f"{x:+.2f}" (line 156) read back by float() (line 175): mills rounded to the
\* nearest cent.  Halfway between two cents the format follows the binary value
\* of the float; the quotes above have no such change
RoundCents(x) ==
    LET m == IF x < 0 THEN -x ELSE x
        q == m \div 10
        r == m % 10
        c == IF r < 5 THEN q
             ELSE IF r > 5 THEN q + 1
             ELSE IF q % 2 = 0 THEN q ELSE q + 1
    IN IF x < 0 THEN -c ELSE c

get_rank(rsi) ==
    IF rsi = RsiNaN THEN "Fair"
    ELSE IF rsi > 75 THEN "Excellent"
    ELSE IF rsi > 65 THEN "Very Good"
    ELSE IF rsi > 55 THEN "Good"
    ELSE "Fair"

\* latest.get('RSI_14', 0)
LatestRsi(q) == IF q.rsi = RsiNoColumn THEN RsiDefault ELSE q.rsi

Take(s, n) == SubSeq(s, 1, IF Len(s) < n THEN Len(s) ELSE n)

get_dynamic_tickers_NoEmptyCheck(pg) ==
    IF pg.kind # "ok" THEN FallbackTickers ELSE Take(pg.links, ScrapeLimit)

\* lines 47-61
get_dynamic_tickers(pg) ==
    IF pg.kind # "ok" THEN FallbackTickers
    ELSE LET tickers == Take(pg.links, ScrapeLimit)
         IN IF tickers = <<>> THEN FallbackTickers ELSE tickers

\* info.get('previousClose', 1), in mills
PrevCloseDefault == 1000

PrevClose(q) == IF q.previousClose = PrevMissing THEN PrevCloseDefault ELSE q.previousClose

\* a / b rounded to the nearest integer (b # 0); the quotes above give no
\* quotient halfway between two integers
RoundDiv(a, b) ==
    LET n == IF a < 0 THEN -a ELSE a
        d == IF b < 0 THEN -b ELSE b
        q == n \div d
        c == IF 2 * (n % d) >= d THEN q + 1 ELSE q
    IN IF (a < 0) = (b < 0) THEN c ELSE -c

\* line 126 formatted by line 157: hundredths of a percent
ChangePercent(change, prev_close) ==
    IF prev_close # 0 THEN RoundDiv(change * 10000, prev_close) ELSE 0

\* latest.get('ATRr_14', 0)
AtrDefault == 0

LatestAtr(q) == IF q.atr = AtrNoColumn THEN AtrDefault ELSE q.atr

\* f"{(regular_price + k * atr):.2f}" (lines 166-167), in cents; the text "nan"
\* of a NaN is <<>>
PriceBand(q, k) ==
    IF LatestAtr(q) = AtrNaN THEN None
    ELSE Some(RoundCents(q.regularMarketPrice + k * LatestAtr(q)))

\* lines 39-45.  random.choice(notes) draws from the generator of module random:
\* what a draw returns is fixed by the seed and by which draw of the run it is
\* (the call that draws and the position of its for loop), and the data of the
\* symbol plays no part in it
Notes == <<"Profit-Taking Risk", "Overextended Technicals", "High Expectations">>

get_risk_note(seed, call, pos) == Notes[((seed + call + pos) % Len(Notes)) + 1]

\* the dict built at lines 151-168 (fields the claims are about); note is the
\* value of get_risk_note() at line 165
stock_data(symbol, q, note) ==
    LET change == q.regularMarketPrice - PrevClose(q)
    IN [ticker |-> symbol,
        change |-> RoundCents(change),
        changePercent |-> Some(ChangePercent(change, PrevClose(q))),
        rank   |-> get_rank(LatestRsi(q)),
        action |-> IF get_rank(LatestRsi(q)) \in {"Good", "Fair"} THEN "Consider" ELSE "Watch",
        riskNotes |-> note,
        atrStop |-> PriceBand(q, -2),
        profitTarget |-> <<PriceBand(q, 2), PriceBand(q, 3)>>]

\* sorted(..., key=float(x['change']), reverse=True): stable, descending
RECURSIVE InsertDesc(_, _)
InsertDesc(s, x) ==
    IF s = <<>> THEN <<x>>
    ELSE IF Head(s).change >= x.change THEN <<Head(s)>> \o InsertDesc(Tail(s), x)
    ELSE <<x>> \o s

RECURSIVE SortedDesc(_)
SortedDesc(s) ==
    IF s = <<>> THEN <<>>
    ELSE InsertDesc(SortedDesc(SubSeq(s, 1, Len(s) - 1)), s[Len(s)])

Top10_Unsorted(all) == Take(all, TopN)

\* line 175
Top10(all) == Take(SortedDesc(all), TopN)

WithinTTL_Inclusive(now, stamp) == now - stamp <= CACHE_DURATION

\* line 86: datetime.utcnow() - api_cache["last_updated"] < CACHE_DURATION
WithinTTL(now, stamp) == now - stamp < CACHE_DURATION

Truthy(opt) == opt # None /\ opt[1] # <<>>

------------------------------------------------------------------------------
(* Responses *)

NoResp == [status |-> 0, kind |-> "none", body |-> <<>>]

Resp(status, kind, body) == [status |-> status, kind |-> kind, body |-> body]

------------------------------------------------------------------------------
(* Initial state *)

Init ==
    /\ api_cache = [data |-> None, last_updated |-> None]
    /\ dataBy = 0
    /\ stampBy = 0
    /\ clock = 0
    /\ calls = 0
    /\ \/ /\ workers = 1
          /\ \E w \in SeqWorlds : page = w[1] /\ market = w[2] /\ rng = w[3]
       \/ /\ workers = MaxProcs
          /\ workers > 1
          /\ \E w \in ThreadedWorlds : page = w[1] /\ market = w[2] /\ rng = w[3]
    /\ pc = [p \in Procs |-> "idle"]
    /\ callId = [p \in Procs |-> 0]
    /\ obs = [p \in Procs |-> 0]
    /\ active_tickers = [p \in Procs |-> <<>>]
    /\ idx = [p \in Procs |-> 0]
    /\ all_data = [p \in Procs |-> <<>>]
    /\ top_10_stocks = [p \in Procs |-> <<>>]
    /\ resp = [p \in Procs |-> NoResp]
    /\ staleServed = FALSE

------------------------------------------------------------------------------
(* The handler get_top_gainers_data, one action per step of a request thread *)

\* the locals of a request thread are dead once it has answered
Answer(p, r) ==
    /\ resp' = [resp EXCEPT ![p] = r]
    /\ pc' = [pc EXCEPT ![p] = "done"]
    /\ obs' = [obs EXCEPT ![p] = 0]
    /\ active_tickers' = [active_tickers EXCEPT ![p] = <<>>]
    /\ idx' = [idx EXCEPT ![p] = 0]
    /\ all_data' = [all_data EXCEPT ![p] = <<>>]
    /\ top_10_stocks' = [top_10_stocks EXCEPT ![p] = <<>>]

\* a request arrives and a free thread of the server picks it up; the threads
\* run the same code, so the request goes to the first free one
BeginRequest(p) ==
    /\ p <= workers
    /\ pc[p] = "idle"
    /\ \A q \in Procs : q < p => pc[q] # "idle"
    /\ calls < MaxCalls
    /\ calls' = calls + 1
    /\ callId' = [callId EXCEPT ![p] = calls + 1]
    /\ pc' = [pc EXCEPT ![p] = "check_data"]
    /\ UNCHANGED <<api_cache, dataBy, stampBy, clock, workers, page, market,
                   obs, active_tickers, idx, all_data, top_10_stocks, resp, rng, staleServed>>

\* line 86, left operand of "and": the truth value of api_cache["data"]
CheckData(p) ==
    /\ pc[p] = "check_data"
    /\ IF Truthy(api_cache.data)
       THEN /\ pc' = [pc EXCEPT ![p] = "check_age"]
            /\ obs' = [obs EXCEPT ![p] = dataBy]
       ELSE /\ pc' = [pc EXCEPT ![p] = "fetch"]
            /\ obs' = obs
    /\ UNCHANGED <<api_cache, dataBy, stampBy, clock, calls, workers, page, market,
                   callId, active_tickers, idx, all_data, top_10_stocks, resp, rng, staleServed>>

\* line 86, right operand: datetime.utcnow() - api_cache["last_updated"] < CACHE_DURATION;
\* the subtraction raises TypeError on None, outside the try of line 92
CheckAge(p) ==
    /\ pc[p] = "check_age"
    /\ IF api_cache.last_updated = None
       THEN Answer(p, Resp(500, "exception", <<>>))
       ELSE /\ pc' = [pc EXCEPT ![p] =
                        IF WithinTTL(clock, api_cache.last_updated[1])
                        THEN "ret_cache" ELSE "fetch"]
            /\ obs' = [obs EXCEPT ![p] = 0]
            /\ UNCHANGED <<active_tickers, idx, all_data, top_10_stocks, resp>>
    /\ UNCHANGED <<api_cache, dataBy, stampBy, clock, calls, workers, page, market, callId, rng, staleServed>>

\* line 88
ReturnCached(p) ==
    /\ pc[p] = "ret_cache"
    /\ Answer(p, Resp(200, "cached", api_cache.data[1]))
    /\ UNCHANGED <<api_cache, dataBy, stampBy, clock, calls, workers, page, market, callId, rng, staleServed>>

\* lines 90-94
GetTickers(p) ==
    /\ pc[p] = "fetch"
    /\ active_tickers' = [active_tickers EXCEPT ![p] = get_dynamic_tickers(page)]
    /\ all_data' = [all_data EXCEPT ![p] = <<>>]
    /\ idx' = [idx EXCEPT ![p] = 1]
    /\ pc' = [pc EXCEPT ![p] = "loop"]
    /\ UNCHANGED <<api_cache, dataBy, stampBy, clock, calls, workers, page, market,
                   callId, obs, top_10_stocks, resp, rng, staleServed>>

ProcessSymbol_NoInnerTry(p) ==
    /\ pc[p] = "loop"
    /\ idx[p] <= Len(active_tickers[p])
    /\ LET symbol == active_tickers[p][idx[p]]
           q == market[symbol]
           note == get_risk_note(rng, callId[p], idx[p])
       IN IF q.kind = "ok"
          THEN /\ all_data' = [all_data EXCEPT ![p] = Append(@, stock_data(symbol, q, note))]
               /\ idx' = [idx EXCEPT ![p] = @ + 1]
               /\ pc' = pc
          ELSE /\ pc' = [pc EXCEPT ![p] = "except"]
               /\ UNCHANGED <<all_data, idx>>
    /\ UNCHANGED <<api_cache, dataBy, stampBy, clock, calls, workers, page, market,
                   callId, obs, active_tickers, top_10_stocks, resp, rng, staleServed>>

\* lines 96-172: one iteration of the for loop
ProcessSymbol(p) ==
    /\ pc[p] = "loop"
    /\ idx[p] <= Len(active_tickers[p])
    /\ LET symbol == active_tickers[p][idx[p]]
           q == market[symbol]
           note == get_risk_note(rng, callId[p], idx[p])
       IN all_data' = [all_data EXCEPT ![p] =
                         IF q.kind = "ok" THEN Append(@, stock_data(symbol, q, note)) ELSE @]
    /\ idx' = [idx EXCEPT ![p] = @ + 1]
    /\ UNCHANGED <<api_cache, dataBy, stampBy, clock, calls, workers, page, market,
                   pc, callId, obs, active_tickers, top_10_stocks, resp, rng, staleServed>>

\* the snapshot lists of all the calls in progress, one after the other
RECURSIVE Pooled(_)
Pooled(n) == IF n = 0 THEN <<>> ELSE Pooled(n - 1) \o all_data[n]

StoreData_Pooled(p) ==
    /\ pc[p] = "loop"
    /\ idx[p] > Len(active_tickers[p])
    /\ top_10_stocks' = [top_10_stocks EXCEPT ![p] = Top10(Pooled(MaxProcs))]
    /\ api_cache' = [api_cache EXCEPT !.data = Some(Top10(Pooled(MaxProcs)))]
    /\ dataBy' = callId[p]
    /\ pc' = [pc EXCEPT ![p] = "stamp"]
    /\ UNCHANGED <<stampBy, clock, calls, workers, page, market,
                   callId, obs, active_tickers, idx, all_data, resp, rng, staleServed>>

\* lines 174-177
StoreData(p) ==
    /\ pc[p] = "loop"
    /\ idx[p] > Len(active_tickers[p])
    /\ top_10_stocks' = [top_10_stocks EXCEPT ![p] = Top10(all_data[p])]
    /\ api_cache' = [api_cache EXCEPT !.data = Some(Top10(all_data[p]))]
    /\ dataBy' = callId[p]
    /\ pc' = [pc EXCEPT ![p] = "stamp"]
    /\ UNCHANGED <<stampBy, clock, calls, workers, page, market,
                   callId, obs, active_tickers, idx, all_data, resp, rng, staleServed>>

\* lines 178-180
StoreStamp(p) ==
    /\ pc[p] = "stamp"
    /\ api_cache' = [api_cache EXCEPT !.last_updated = Some(clock)]
    /\ stampBy' = callId[p]
    /\ staleServed' = FALSE
    /\ Answer(p, Resp(200, "fresh", top_10_stocks[p]))
    /\ UNCHANGED <<dataBy, clock, calls, workers, page, market, callId, rng>>

\* an exception that reaches the handler of line 182: one raised in lines 94-175
\* outside the reach of the inner handlers (get_dynamic_tickers catches its own,
\* and the assignments of lines 177-178 and jsonify of a list of dicts of
\* strings do not raise)
CriticalError(p) ==
    /\ pc[p] = "loop"
    /\ pc' = [pc EXCEPT ![p] = "except"]
    /\ UNCHANGED <<api_cache, dataBy, stampBy, clock, calls, workers, page, market,
                   callId, obs, active_tickers, idx, all_data, top_10_stocks, resp, rng, staleServed>>

\* lines 183-184, and line 187 when the test fails
ExceptCheck(p) ==
    /\ pc[p] = "except"
    /\ IF Truthy(api_cache.data)
       THEN /\ pc' = [pc EXCEPT ![p] = "ret_stale"]
            /\ UNCHANGED <<obs, active_tickers, idx, all_data, top_10_stocks, resp>>
       ELSE Answer(p, Resp(500, "error", <<>>))
    /\ UNCHANGED <<api_cache, dataBy, stampBy, clock, calls, workers, page, market, callId, rng, staleServed>>

ReturnStale_Touch(p) ==
    /\ pc[p] = "ret_stale"
    /\ staleServed' = TRUE
    /\ api_cache' = [api_cache EXCEPT !.last_updated = Some(clock)]
    /\ Answer(p, Resp(200, "stale", api_cache.data[1]))
    /\ UNCHANGED <<dataBy, stampBy, clock, calls, workers, page, market, callId, rng>>

\* lines 185-186
ReturnStale(p) ==
    /\ pc[p] = "ret_stale"
    /\ staleServed' = TRUE
    /\ Answer(p, Resp(200, "stale", api_cache.data[1]))
    /\ UNCHANGED <<api_cache, dataBy, stampBy, clock, calls, workers, page, market, callId, rng>>

\* the response of a finished call is sent and its thread is free again
Deliver(p) ==
    /\ pc[p] = "done"
    /\ pc' = [pc EXCEPT ![p] = "idle"]
    /\ resp' = [resp EXCEPT ![p] = NoResp]
    /\ callId' = [callId EXCEPT ![p] = 0]
    /\ UNCHANGED <<api_cache, dataBy, stampBy, clock, calls, workers, page, market,
                   obs, active_tickers, idx, all_data, top_10_stocks, rng, staleServed>>

\* time passes.  The code reads the clock only to compare the age of the latest
\* timestamp with CACHE_DURATION, and a shorter delay leaves every such
\* comparison as it is: the clock advances by one CACHE_DURATION at a time
Tick ==
    /\ clock < MaxTicks * CACHE_DURATION
    /\ clock' = clock + CACHE_DURATION
    /\ UNCHANGED <<api_cache, dataBy, stampBy, calls, workers, page, market,
                   pc, callId, obs, active_tickers, idx, all_data, top_10_stocks, resp, rng, staleServed>>

Next ==
    \/ \E p \in Procs : BeginRequest(p)
    \/ \E p \in Procs : CheckData(p)
    \/ \E p \in Procs : CheckAge(p)
    \/ \E p \in Procs : ReturnCached(p)
    \/ \E p \in Procs : GetTickers(p)
    \/ \E p \in Procs : ProcessSymbol(p)
    \/ \E p \in Procs : StoreData(p)
    \/ \E p \in Procs : StoreStamp(p)
    \/ \E p \in Procs : CriticalError(p)
    \/ \E p \in Procs : ExceptCheck(p)
    \/ \E p \in Procs : ReturnStale(p)
    \/ \E p \in Procs : Deliver(p)
    \/ Tick

Spec == Init /\ [][Next]_vars

------------------------------------------------------------------------------
(* Vocabulary of the properties *)

\* the exact change of line 121 for a ticker, in mills
RawChange(t) == market[t].regularMarketPrice - PrevClose(market[t])

\* the stored pair was written by one refresh and is younger than the TTL
FreshEntry ==
    /\ api_cache.data # None
    /\ api_cache.last_updated # None
    /\ dataBy = stampBy
    /\ clock - api_cache.last_updated[1] < CACHE_DURATION

\* positions of a call that is executing a refresh and has not stored yet
Refreshing(p) == pc[p] \in {"fetch", "loop"}

\* every snapshot list the program holds: stored, being returned, or returned
Entries ==
    (IF api_cache.data = None THEN {} ELSE {api_cache.data[1]})
    \cup {top_10_stocks[p] : p \in Procs}
    \cup {resp[p].body : p \in Procs}

Snapshots == UNION {{e[i] : i \in 1..Len(e)} : e \in Entries}

------------------------------------------------------------------------------
(* C1: on a server that handles its calls one after the other, a call made
   while the stored entry, whatever its snapshot list (an empty list
   included), is younger than CACHE_DURATION performs no upstream fetch (its
   TTL check never leads to the refresh) and answers with the stored entry,
   leaving the cache as it is. *)
C1_SecondCallWithinTTLDoesNotRefresh ==
    [][\A p \in Procs :
         (workers = 1 /\ pc[p] \in {"check_data", "check_age", "ret_cache"}
             /\ pc'[p] # pc[p] /\ FreshEntry)
            => /\ pc'[p] # "fetch"
               /\ api_cache' = api_cache
               /\ pc'[p] = "done" => resp'[p] = Resp(200, "cached", api_cache.data[1])]_vars

(* C2: on a server that handles its calls one after the other, when a refresh
   raises while api_cache holds the entry of an earlier successful refresh,
   the call does not end with the 500 error object: it answers 200 with that
   entry, and api_cache is left as it was. *)
C2_FailedRefreshServesEarlierEntry ==
    [][\A p \in Procs :
         (workers = 1 /\ pc[p] \in {"except", "ret_stale"} /\ pc'[p] # pc[p]
             /\ api_cache.data # None /\ api_cache.last_updated # None /\ dataBy = stampBy)
            => /\ api_cache' = api_cache
               /\ pc'[p] = "done" => resp'[p] = Resp(200, "stale", api_cache.data[1])]_vars

(* C3: when symbol discovery fails and the market-data fetch fails for every
   symbol, no entry is stored and no call answers with a success. *)
DiscoveryFails == page.kind # "ok" \/ page.links = <<>>

EveryFetchFails ==
    \A i \in 1..Len(get_dynamic_tickers(page)) :
        market[get_dynamic_tickers(page)[i]].kind = "error"

C3_ColdStartFailureIsUnavailable ==
    (DiscoveryFails /\ EveryFetchFails)
        => /\ api_cache.data = None
           /\ \A p \in Procs : resp[p].status # 200

(* C4: the data and the timestamp a reader reads at the TTL check of line 86
   were written by the same refresh. *)
C4_ReaderSeesPairOfOneRefresh ==
    [][\A p \in Procs :
         (pc[p] = "check_age" /\ pc'[p] # "check_age") => obs[p] = stampBy]_vars

------------------------------------------------------------------------------
\* the steps of a call that the code takes when nothing raises
Step(p) ==
    \/ CheckData(p)
    \/ CheckAge(p)
    \/ ReturnCached(p)
    \/ GetTickers(p)
    \/ ProcessSymbol(p)
    \/ StoreData(p)
    \/ StoreStamp(p)
    \/ ExceptCheck(p)
    \/ ReturnStale(p)

OtherRefreshing(q) == \E p \in Procs \ {q} : Refreshing(p)

(* C5 as claimed: while one call is executing a refresh and an entry (here:
   one with snapshots) is stored, no other call starts a refresh of its own. *)
C5_NoSecondRefreshWhileRefreshing ==
    [][\A q \in Procs :
         (OtherRefreshing(q) /\ Truthy(api_cache.data) /\ pc[q] \in {"check_data", "check_age"})
            => pc'[q] # "fetch"]_vars

(* C5 as amended: while one call is executing a refresh, every other call in
   progress can take its next step (no call waits for the refresh); its TTL
   check leads to line 88 exactly when the stored list is non-empty and its
   timestamp is younger than CACHE_DURATION, line 88 answers with the stored
   list and touches nothing, and a TTL check that finds the stored list empty
   or its timestamp CACHE_DURATION old or older starts a refresh of its own. *)
C5_ConcurrentCallNeverWaits ==
    /\ [](\A q \in Procs : (OtherRefreshing(q) /\ pc[q] \notin {"idle", "done"}) => ENABLED Step(q))
    /\ [][\A q \in Procs :
            (OtherRefreshing(q) /\ pc'[q] # pc[q]) =>
               /\ pc[q] = "check_data" =>
                     pc'[q] = (IF Truthy(api_cache.data) THEN "check_age" ELSE "fetch")
               /\ (pc[q] = "check_age" /\ api_cache.last_updated # None) =>
                     pc'[q] = (IF clock - api_cache.last_updated[1] < CACHE_DURATION
                               THEN "ret_cache" ELSE "fetch")
               /\ pc[q] = "ret_cache" =>
                     /\ resp'[q] = Resp(200, "cached", api_cache.data[1])
                     /\ pc'[q] = "done"
                     /\ api_cache' = api_cache]_vars

\* a call is about to answer from the cache while another call is refreshing
C5_Witness ==
    \E p, q \in Procs :
        /\ p # q
        /\ Refreshing(p)
        /\ pc[q] = "ret_cache"
        /\ Truthy(api_cache.data)

------------------------------------------------------------------------------
NonIncreasing(e, key(_)) ==
    \A i, j \in 1..Len(e) : i < j => key(e[i]) >= key(e[j])

ExactChangeOf(x) == RawChange(x.ticker)

ReportedChangeOf(x) == x.change

(* C6 as claimed: a stored entry is ordered by the exact change (currentPrice
   minus previousClose), non-increasing, and has at most 10 snapshots. *)
C6_StoredOrderedByExactChange ==
    api_cache.data # None =>
        /\ Len(api_cache.data[1]) <= TopN
        /\ NonIncreasing(api_cache.data[1], ExactChangeOf)

(* C6 as amended: a stored entry is ordered by the change as reported in the
   snapshot (the exact change rounded to two decimals, which is the sort key
   of line 175), non-increasing, and has at most 10 snapshots. *)
C6_StoredOrderedByReportedChange ==
    api_cache.data # None =>
        /\ Len(api_cache.data[1]) <= TopN
        /\ NonIncreasing(api_cache.data[1], ReportedChangeOf)

\* a refresh has just stored the 10 best of more than 10 snapshots that it
\* had collected in another order
C6_Witness ==
    \E p \in Procs :
        /\ pc[p] = "stamp"
        /\ Len(all_data[p]) > TopN
        /\ \E i, j \in 1..Len(all_data[p]) : i < j /\ all_data[p][i].change < all_data[p][j].change
        /\ api_cache.data = Some(top_10_stocks[p])
        /\ Len(top_10_stocks[p]) = TopN
        /\ top_10_stocks[p][1].change > top_10_stocks[p][TopN].change

------------------------------------------------------------------------------
(* C7: no two snapshots of a stored or returned entry have the same ticker. *)
C7_TickersDistinct ==
    \A e \in Entries : \A i, j \in 1..Len(e) : i # j => e[i].ticker # e[j].ticker

(* C8: every snapshot of a stored or returned entry has a strictly positive
   change (regularMarketPrice minus previousClose). *)
C8_OnlyGainers ==
    \A x \in Snapshots : RawChange(x.ticker) > 0

(* C9: the rank of a snapshot is Excellent, Very Good, Good or Fair by the
   thresholds 75, 65, 55 on its RSI, and Unavailable when the RSI is
   unavailable (no RSI_14 column or a NaN). *)
RankOfRsi(rsi) ==
    IF rsi \in {RsiNaN, RsiNoColumn} THEN "Unavailable"
    ELSE IF rsi > 75 THEN "Excellent"
    ELSE IF rsi > 65 THEN "Very Good"
    ELSE IF rsi > 55 THEN "Good"
    ELSE "Fair"

C9_RankFollowsRsi ==
    \A x \in Snapshots : x.rank = RankOfRsi(market[x.ticker].rsi)

(* C10: a snapshot of rank Excellent or Very Good has action "Consider" and a
   snapshot of rank Unavailable has action "Watch". *)
C10_ActionFollowsRank ==
    \A x \in Snapshots :
        /\ x.rank \in {"Excellent", "Very Good"} => x.action = "Consider"
        /\ x.rank = "Unavailable" => x.action = "Watch"
        /\ x.action \in {"Consider", "Watch"}

------------------------------------------------------------------------------
\* every snapshot list a call holds or the cache stores, the lists a refresh
\* is still collecting included
AllSnapshots ==
    Snapshots \cup UNION {{all_data[p][i] : i \in 1..Len(all_data[p])} : p \in Procs}

AtrAvailable(q) == q.atr \notin {AtrNaN, AtrNoColumn}

(* C11: for every snapshot, atrStop is the price minus 2 times the ATR and
   profitTarget is the band from the price plus 2 times the ATR to the price
   plus 3 times the ATR; when the ATR of the symbol is unavailable (no
   ATRr_14 column, or a NaN) the three values are reported as unavailable
   and never computed as if the ATR were 0. *)
C11_AtrLevelsOrUnavailable ==
    \A x \in AllSnapshots :
        LET q == market[x.ticker]
        IN IF AtrAvailable(q)
           THEN /\ x.atrStop = Some(RoundCents(q.regularMarketPrice - 2 * q.atr))
                /\ x.profitTarget = <<Some(RoundCents(q.regularMarketPrice + 2 * q.atr)),
                                      Some(RoundCents(q.regularMarketPrice + 3 * q.atr))>>
           ELSE /\ x.atrStop = None
                /\ x.profitTarget = <<None, None>>

(* C12: the changePercent of a snapshot is change / previousClose * 100 when
   the quote has a previousClose greater than 0; when previousClose is zero,
   negative or missing, changePercent is marked unavailable: it is neither 0
   nor a number computed from a substituted previousClose. *)
C12_ChangePercentNeedsPreviousClose ==
    \A x \in AllSnapshots :
        LET q == market[x.ticker]
        IN IF q.previousClose # PrevMissing /\ q.previousClose > 0
           THEN x.changePercent =
                    Some(RoundDiv((q.regularMarketPrice - q.previousClose) * 10000,
                                  q.previousClose))
           ELSE x.changePercent = None

------------------------------------------------------------------------------
\* positions of a call that holds the symbol list of its refresh
HasTickers(p) == pc[p] \in {"loop", "stamp", "except", "ret_stale"}

(* C13: symbol discovery always hands the refresh a non-empty symbol list.
   When the scrape fails (network error, page without table) or finds no
   ticker, the list is the fixed fallback list; when it succeeds the list is
   the first tickers of the page, between 1 and 25 of them; and the call of
   get_dynamic_tickers never raises: the step that makes it leads into the
   for loop. *)
C13_DiscoveryNeverEmpty ==
    /\ [](\A p \in Procs :
            HasTickers(p) =>
               /\ Len(active_tickers[p]) >= 1
               /\ IF page.kind # "ok" \/ page.links = <<>>
                  THEN active_tickers[p] = FallbackTickers
                  ELSE /\ Len(active_tickers[p]) <= 25
                       /\ Len(active_tickers[p]) \in {25, Len(page.links)}
                       /\ active_tickers[p] = SubSeq(page.links, 1, Len(active_tickers[p])))
    /\ [][\A p \in Procs :
            (pc[p] = "fetch" /\ pc'[p] # "fetch")
               => pc'[p] = "loop" /\ active_tickers'[p] # <<>>]_vars

\* a refresh is working through the fallback list because the page had no ticker
C13_Witness ==
    \E p \in Procs :
        /\ pc[p] = "loop"
        /\ page.kind = "ok"
        /\ page.links = <<>>
        /\ active_tickers[p] = FallbackTickers
        /\ idx[p] > 1

------------------------------------------------------------------------------
(* C14: the risk note of a snapshot is a function of the inputs of the
   snapshot: the snapshot a refresh builds for a symbol carries the same risk
   note as the snapshot of that symbol in the stored entry, which an earlier
   refresh built from the same upstream data. *)
C14_RiskNoteDeterministic ==
    \A p \in Procs :
        (pc[p] = "loop" /\ api_cache.data # None) =>
            \A i \in 1..Len(all_data[p]) : \A j \in 1..Len(api_cache.data[1]) :
                all_data[p][i].ticker = api_cache.data[1][j].ticker
                    => all_data[p][i].riskNotes = api_cache.data[1][j].riskNotes

------------------------------------------------------------------------------
\* the fetch of a symbol gives a price and a history
Survives(t) == market[t].kind = "ok"

Survivors(tickers) == SelectSeq(tickers, Survives)

Count(s, Test(_)) == Cardinality({i \in 1..Len(s) : Test(s[i])})

\* e holds the n best snapshots of all by reported change, best first
IsTopOf(e, all, n) ==
    /\ Len(e) = (IF Len(all) < n THEN Len(all) ELSE n)
    /\ NonIncreasing(e, ReportedChangeOf)
    /\ \A k \in 1..Len(e) :
           LET Same(x) == x = e[k] IN Count(e, Same) <= Count(all, Same)
    /\ Len(e) > 0 =>
           LET Better(x) == x.change > e[Len(e)].change
           IN Count(e, Better) = Count(all, Better)

(* C15: per-symbol failures are isolated within a refresh.  A symbol whose
   fetch raises, returns no price or returns an empty history adds nothing
   and the loop can always go on with the next symbol; the snapshots collected are
   those of exactly the non-failing symbols met so far, in page order; once
   the loop is over the refresh stores, unless something other than a symbol
   fails; what it stores and returns with status 200 is the top 10 by
   reported change of the snapshots of exactly the non-failing symbols. *)
C15_SymbolFailuresIsolated ==
    /\ [](\A p \in Procs :
            /\ pc[p] \in {"loop", "stamp"} =>
                  LET s == Survivors(SubSeq(active_tickers[p], 1, idx[p] - 1))
                  IN /\ Len(all_data[p]) = Len(s)
                     /\ \A i \in 1..Len(s) : all_data[p][i].ticker = s[i]
            /\ (pc[p] = "loop" /\ idx[p] <= Len(active_tickers[p])) =>
                  ENABLED (ProcessSymbol(p) /\ pc'[p] = "loop" /\ idx'[p] = idx[p] + 1)
            /\ pc[p] = "stamp" =>
                  /\ IsTopOf(top_10_stocks[p], all_data[p], 10)
                  /\ \A i \in 1..Len(top_10_stocks[p]) : Survives(top_10_stocks[p][i].ticker)
                  /\ dataBy = callId[p] => api_cache.data = Some(top_10_stocks[p]))
    /\ [][\A p \in Procs :
            /\ (pc[p] = "loop" /\ idx[p] <= Len(active_tickers[p]) /\ pc'[p] # "except"
                   /\ <<idx[p], all_data[p], pc[p]>> # <<idx'[p], all_data'[p], pc'[p]>>
                   /\ ~Survives(active_tickers[p][idx[p]]))
                  => /\ pc'[p] = "loop"
                     /\ idx'[p] = idx[p] + 1
                     /\ all_data'[p] = all_data[p]
            /\ (pc[p] = "loop" /\ idx[p] > Len(active_tickers[p]) /\ pc'[p] \notin {"loop", "except"})
                  => /\ pc'[p] = "stamp"
                     /\ api_cache'.data = Some(top_10_stocks'[p])
            /\ (pc[p] = "stamp" /\ pc'[p] # "stamp")
                  => resp'[p] = Resp(200, "fresh", top_10_stocks[p])]_vars

\* a refresh stores the 10 best of more than 10 survivors of a page on which
\* some fetches raised, some gave no price and some gave an empty history
C15_Witness ==
    \E p \in Procs :
        /\ pc[p] = "stamp"
        /\ Len(all_data[p]) > 10
        /\ \A k \in {"error", "noprice", "emptyhist"} :
               \E i \in 1..Len(active_tickers[p]) : market[active_tickers[p][i]].kind = k
        /\ api_cache.data = Some(top_10_stocks[p])
        /\ Len(top_10_stocks[p]) = 10

------------------------------------------------------------------------------
\* the tickers of the model in ascending order of their text
TickersAscending ==
    <<"AAA", "AAPL", "AMD", "AVGO", "BBB", "DELL", "GME", "LLY", "NVDA", "PLTR", "SMCI">>
    \o LongPage \o <<"TSLA">>

TickerRank(t) == CHOOSE i \in 1..Len(TickersAscending) : TickersAscending[i] = t

(* C16: in a stored or returned entry, two snapshots with equal change (the
   same exact change and hence the same reported change) appear in ascending
   order of their tickers, whatever the order in which the page listed
   them. *)
C16_TiesInTickerOrder ==
    \A e \in Entries : \A i, j \in 1..Len(e) :
        (i < j /\ e[i].change = e[j].change /\ RawChange(e[i].ticker) = RawChange(e[j].ticker))
            => TickerRank(e[i].ticker) <= TickerRank(e[j].ticker)

------------------------------------------------------------------------------
(* C17: every call ends in one of three ways: it returns the stored entry
   (line 88 or line 186), it returns the entry it has just built (line 180),
   or it returns the 500 error object of line 187; and no call evaluates the
   age test of line 86 while last_updated is still None. *)
C17_ThreeOutcomes ==
    \A p \in Procs :
        /\ pc[p] = "done" => resp[p].kind \in {"cached", "stale", "fresh", "error"}
        /\ pc[p] = "check_age" => api_cache.last_updated # None

------------------------------------------------------------------------------
\* the stored timestamp is CACHE_DURATION old or older
Expired ==
    /\ api_cache.last_updated # None
    /\ clock - api_cache.last_updated[1] >= CACHE_DURATION

(* C18: a stale fallback never extends the lifetime of the entry.  The steps
   that serve the stale entry (lines 183-186) leave api_cache as it is; on a
   server that handles its calls one after the other, once a call has been
   answered with the stale entry the stored pair is still the one of the
   last successful refresh and its timestamp is CACHE_DURATION old or older,
   until a refresh replaces it; the TTL check of a call that finds such a
   timestamp leads to a refresh; and a refresh that succeeds replaces the
   entry and the timestamp, which ends the stale period. *)
C18_StaleFallbackKeepsTimestamp ==
    /\ []((workers = 1 /\ staleServed /\ \A p \in Procs : pc[p] # "stamp") =>
             /\ Truthy(api_cache.data)
             /\ dataBy = stampBy
             /\ Expired)
    /\ [][\A p \in Procs :
            /\ (pc[p] \in {"except", "ret_stale"} /\ pc'[p] # pc[p])
                  => /\ api_cache' = api_cache
                     /\ dataBy' = dataBy
                     /\ stampBy' = stampBy
            /\ (pc[p] = "check_data" /\ pc'[p] # pc[p] /\ Truthy(api_cache.data))
                  => pc'[p] = "check_age"
            /\ (pc[p] = "check_age" /\ pc'[p] # pc[p] /\ Expired)
                  => pc'[p] = "fetch"
            /\ (pc[p] = "stamp" /\ pc'[p] # pc[p])
                  => /\ api_cache'.last_updated = Some(clock)
                     /\ stampBy' = callId[p]
                     /\ ~staleServed'
                     /\ resp'[p] = Resp(200, "fresh", top_10_stocks[p])
                     /\ workers = 1 => /\ api_cache'.data = Some(top_10_stocks[p])
                                        /\ dataBy' = callId[p]]_vars

\* after a call was answered with the stale entry, a later call has refreshed
\* and is replacing the entry
C18_Witness ==
    /\ workers = 1
    /\ staleServed
    /\ pc[1] = "stamp"
    /\ dataBy = callId[1]
    /\ Truthy(api_cache.data)
    /\ Expired

------------------------------------------------------------------------------
\* the snapshots that the refresh of call c builds from the first n tickers of
\* its symbol list, in the order of the list
RECURSIVE Built(_, _)
Built(c, n) ==
    IF n = 0 THEN <<>>
    ELSE LET symbol == get_dynamic_tickers(page)[n]
             q == market[symbol]
         IN IF q.kind = "ok"
            THEN Append(Built(c, n - 1), stock_data(symbol, q, get_risk_note(rng, c, n)))
            ELSE Built(c, n - 1)

\* everything the refresh of call c builds
CycleOutput(c) == Built(c, Len(get_dynamic_tickers(page)))

(* C19: under every interleaving of concurrent refreshes, the list a refresh
   is collecting holds only the snapshots that this refresh has built from
   its own symbol list; the value stored in api_cache["data"] is the complete
   output of the one refresh that wrote it (the 10 best of all the snapshots
   that this refresh built); and every returned entry is the complete output
   of one refresh. *)
C19_EntryOfOneRefresh ==
    /\ \A p \in Procs :
           pc[p] \in {"loop", "stamp"} =>
              /\ active_tickers[p] = get_dynamic_tickers(page)
              /\ all_data[p] = Built(callId[p], idx[p] - 1)
    /\ api_cache.data # None => IsTopOf(api_cache.data[1], CycleOutput(dataBy), 10)
    /\ \A p \in Procs :
           resp[p].kind \in {"cached", "stale", "fresh"} =>
              \E c \in 1..calls : IsTopOf(resp[p].body, CycleOutput(c), 10)

\* one refresh has stored its entry while another refresh, which has built a
\* snapshot of its own, is in progress
C19_Witness ==
    \E p, q \in Procs :
        /\ p # q
        /\ pc[p] = "stamp"
        /\ dataBy = callId[p]
        /\ Truthy(api_cache.data)
        /\ pc[q] = "loop"
        /\ all_data[q] # <<>>

====
